---- MODULE Spec2Model ----
(***************************************************************************)
(* Model of ptsa/wavelet_obsolete.py: the Morlet wavelet banks             *)
(* (morlet_multi, morlet_multi2), the FFT convolution (fconv_multi) and    *)
(* the phase/power pipelines (phase_pow_multi, phase_pow_multi2).          *)
(*                                                                         *)
(* Numbers.  A complex number is a pair <<re, im>> of integers.  An array  *)
(* is a record [kind, dtype, shape, data] with data in C (row-major)       *)
(* order; axes and indices are 0-based as in the source, sequences are     *)
(* 1-based as in TLA+.  kind is "array", or "None" for Python's None.      *)
(* The source is Python 2 (xrange): `/` on ints is floor division.         *)
(***************************************************************************)
EXTENDS Integers, Sequences, FiniteSets, TLC

VARIABLES fn, args, pc, wavelets, eegdat, wavCoef, result, err, begun

vars == <<fn, args, pc, wavelets, eegdat, wavCoef, result, err, begun>>

----------------------------------------------------------------------------
(* Bounds of the model. *)

MaxRows == 2

MaxLen == 2

----------------------------------------------------------------------------
(* Integer and complex arithmetic. *)

Abs(n) == IF n < 0 THEN -n ELSE n

Max2(a, b) == IF a > b THEN a ELSE b

Min2(a, b) == IF a < b THEN a ELSE b

RECURSIVE Pow2(_)
Pow2(p) == IF p = 0 THEN 1 ELSE 2 * Pow2(p - 1)

RECURSIVE GCD(_, _)
GCD(a, b) == IF b = 0 THEN a ELSE GCD(b, a % b)

CZero == <<0, 0>>

CAdd(x, y) == <<x[1] + y[1], x[2] + y[2]>>

CMul(x, y) == <<x[1] * y[1] - x[2] * y[2], x[1] * y[2] + x[2] * y[1]>>

Abs2(c) == c[1] * c[1] + c[2] * c[2]

RECURSIVE CSum(_, _, _)
CSum(F(_), lo, hi) == IF lo > hi THEN CZero ELSE CAdd(F(lo), CSum(F, lo + 1, hi))

RECURSIVE ISum(_, _, _)
ISum(F(_), lo, hi) == IF lo > hi THEN 0 ELSE F(lo) + ISum(F, lo + 1, hi)

RECURSIVE IMax(_, _, _)
IMax(F(_), lo, hi) == IF lo = hi THEN F(lo) ELSE Max2(F(lo), IMax(F, lo + 1, hi))

----------------------------------------------------------------------------
(* numpy arrays. *)

RECURSIVE Prod(_)
Prod(shape) == IF shape = <<>> THEN 1 ELSE Head(shape) * Prod(Tail(shape))

None == [kind |-> "None", dtype |-> "none", shape |-> <<>>, data |-> <<>>]

Array(dtype, shape, data) ==
    [kind |-> "array", dtype |-> dtype, shape |-> shape, data |-> data]

\* stride of axis k (1-based position) of a C-ordered array
Stride(shape, k) == Prod(SubSeq(shape, k + 1, Len(shape)))

\* linear offset (0-based) of a 0-based multi-index
Ravel(idx, shape) == ISum(LAMBDA k : idx[k] * Stride(shape, k), 1, Len(shape))

\* the 0-based multi-index of a linear offset
Unravel(lin, shape) == [k \in 1..Len(shape) |-> (lin \div Stride(shape, k)) % shape[k]]

At(a, idx) == a.data[Ravel(idx, a.shape) + 1]

\* row i (0-based) of a 2-D array, as a sequence
Row(a, i) == [j \in 1..a.shape[2] |-> a.data[i * a.shape[2] + j]]

\* a 2-D array from a sequence of equally long rows
FromRows(dtype, rows, ncols) ==
    Array(dtype, <<Len(rows), ncols>>,
          [n \in 1..(Len(rows) * ncols) |->
              rows[((n - 1) \div ncols) + 1][((n - 1) % ncols) + 1]])

\* N.atleast_2d
atleast_2d(a) ==
    IF Len(a.shape) = 0 THEN Array(a.dtype, <<1, 1>>, a.data)
    ELSE IF Len(a.shape) = 1 THEN Array(a.dtype, <<1, a.shape[1]>>, a.data)
    ELSE a

\* N.transpose(a, perm), perm a sequence of 0-based axes
transpose(a, perm) ==
    LET oshape == [k \in 1..Len(perm) |-> a.shape[perm[k] + 1]]
        src(oidx) == [d \in 1..Len(perm) |->
                         oidx[CHOOSE k \in 1..Len(perm) : perm[k] + 1 = d]]
    IN Array(a.dtype, oshape,
             [n \in 1..Prod(oshape) |-> At(a, src(Unravel(n - 1, oshape)))])

\* N.reshape(a, shape)
reshape(a, shape) == Array(a.dtype, shape, a.data)

RepeatRowsTiled(rows, n) == [r \in 1..(Len(rows) * n) |-> rows[((r - 1) % Len(rows)) + 1]]

\* a.repeat(n, axis=0) on a sequence of rows
RepeatRows(rows, n) == [r \in 1..(Len(rows) * n) |-> rows[((r - 1) \div n) + 1]]

\* N.vstack([a]*n) on a sequence of rows
TileRows(rows, n) == [r \in 1..(Len(rows) * n) |-> rows[((r - 1) % Len(rows)) + 1]]

----------------------------------------------------------------------------
(* ptsa.helper *)

\* nextPow2(n): the exponent of the next power of two >= n
nextPow2(n) == CHOOSE p \in 0..n : Pow2(p) >= n /\ \A q \in 0..(p - 1) : Pow2(q) < n

\* the axis order that moves `axis` last: N.r_[0:axis, axis+1:rnk, axis]
newdims(axis, rnk) ==
    [k \in 1..rnk |-> IF k - 1 < axis THEN k - 1
                      ELSE IF k < rnk THEN k ELSE axis]

NormAxis(axis, rnk) == IF axis < 0 THEN axis + rnk ELSE axis

\* reshapeTo2D(data, axis): 2-D array with `axis` as the 2nd dimension
reshapeTo2D(a, axis) ==
    LET rnk == Len(a.shape)
        n   == a.shape[NormAxis(axis, rnk) + 1]
    IN reshape(transpose(a, newdims(NormAxis(axis, rnk), rnk)),
               <<Prod(a.shape) \div n, n>>)

\* reshapeFrom2D(data, axis, dshape): the inverse of reshapeTo2D for an
\* array of shape dshape
reshapeFrom2D(a, axis, dshape) ==
    LET rnk     == Len(dshape)
        ax      == NormAxis(axis, rnk)
        nd      == newdims(ax, rnk)
        tdshape == [k \in 1..rnk |-> dshape[nd[k] + 1]]
        olddims == [k \in 1..rnk |-> IF k - 1 < ax THEN k - 1
                                     ELSE IF k - 1 = ax THEN rnk - 1 ELSE k - 2]
    IN transpose(reshape(a, tdshape), olddims)

\* centered(arr, newsize) on the rows of a 2-D array: the centre newsize
\* columns; an odd excess loses its extra sample at the front
centered(rows, osize) ==
    LET excess   == Len(rows[1]) - osize
        startind == (excess + 1) \div 2
    IN [r \in 1..Len(rows) |-> SubSeq(rows[r], startind + 1, startind + osize)]

----------------------------------------------------------------------------
(* fconv_multi *)

actual_sizePlusOne(s1, s2) == s1 + s2

actual_size(s1, s2) == s1 + s2 - 1

\* fft(x, size): the transform of x zero-padded or truncated to size.  A
\* spectrum is represented by the length-size sequence it transforms.
fft(x, size) == [n \in 1..size |-> IF n <= Len(x) THEN x[n] ELSE CZero]

\* the product of two spectra is the transform of the circular convolution
SpecMul(X, Y) ==
    LET size == Len(X)
    IN [n \in 1..size |->
           CSum(LAMBDA k : CMul(X[k], Y[((n - k) % size) + 1]), 1, size)]

ifft(X) == X

osizeMin(s1, s2) == IF s1 > s2 THEN s2 ELSE s1

osize(s1, s2) == IF s1 > s2 THEN s1 ELSE s2

Real(rows) == [r \in 1..Len(rows) |-> [j \in 1..Len(rows[r]) |-> <<rows[r][j][1], 0>>]]

Rows(a) == [i \in 1..a.shape[1] |-> Row(a, i - 1)]

fconv_multi(in1raw, in2raw, mode) ==
    LET in1  == atleast_2d(in1raw)
        in2  == atleast_2d(in2raw)
        num1 == in1.shape[1]
        s1   == in1.shape[2]
        num2 == in2.shape[1]
        s2   == in2.shape[2]
        complex_result == in1.dtype = "complex" \/ in2.dtype = "complex"
        asize == actual_size(s1, s2)
        size == Pow2(nextPow2(asize))
        in1_fft == [i \in 1..num1 |-> fft(Row(in1, i - 1), size)]
        in2_fft == [i \in 1..num2 |-> fft(Row(in2, i - 1), size)]
        rep  == RepeatRows(in1_fft, num2)
        til  == TileRows(in2_fft, num1)
        prod == [r \in 1..Len(rep) |-> SpecMul(rep[r], til[r])]
        ret0 == [r \in 1..Len(prod) |-> SubSeq(ifft(prod[r]), 1, asize)]
        ret  == IF complex_result THEN ret0 ELSE Real(ret0)
        dt   == IF complex_result THEN "complex" ELSE "real"
    IN IF mode = "full" THEN FromRows(dt, ret, asize)
       ELSE IF mode = "same"
            THEN FromRows(dt, centered(ret, osize(s1, s2)), osize(s1, s2))
       ELSE IF mode = "valid"
            THEN FromRows(dt, centered(ret, Abs(s2 - s1) + 1), Abs(s2 - s1) + 1)
       ELSE None

----------------------------------------------------------------------------
(* morlet_multi, morlet_multi2 *)

sampling_window == 7

\* N.ceil(st*samplerate*sampling_window) for st = width/(2*pi*freq).
\* 355/113 bounds pi from above and no fraction with a denominator below
\* 33102 lies between the two, so for the small integers of the model
\* n <= w*sr*win/(2*pi*f) iff 710*f*n <= 113*w*sr*win; the quotient is
\* never an integer, so its ceiling is its floor plus one.
CeilSamples(w, f, samplerate, window) ==
    ((113 * w * samplerate * window) \div (710 * f)) + 1

\* a rational number in lowest terms
Ratio(n, d) == <<n \div GCD(n, d), d \div GCD(n, d)>>

\* ptsa.fixed_scipy.morlet(M, w, s, complete): M complex samples of the
\* Morlet kernel of width w and scale s.  The samples themselves are not
\* computed; each is a Gaussian integer that is a function of the same
\* arguments and of its position.
morlet_wavelet(M, w, s, complete) ==
    [j \in 1..M |-> <<M + w * j - (IF complete THEN 1 ELSE 0), s[1] + s[2] * j>>]

Energy2Unscaled(vals, samplerate) ==
    Ratio(ISum(LAMBDA j : Abs2(vals[j]), 1, Len(vals)), 1)

\* energy**2 for energy = N.sqrt(N.sum(N.power(N.abs(row),2.))/samplerate)
Energy2(vals, samplerate) ==
    Ratio(ISum(LAMBDA j : Abs2(vals[j]), 1, Len(vals)), samplerate)

\* one row of a bank: the arguments it was built from, its samples before
\* normalisation, and the square energy**2 = sum(|samples|**2)/samplerate
\* of the factor the row is divided by
Wavelet(M, w, f, samplerate, complete) ==
    LET s    == Ratio(f * M, 2 * w * samplerate)
        vals == morlet_wavelet(M, w, s, complete)
    IN [samples |-> M, w |-> w, s |-> s, vals |-> vals,
        energy2 |-> Energy2(vals, samplerate)]

Raise(e) == [kind |-> "raise", err |-> e]

IsRaise(r) == r.kind = "raise"

BroadcastWidthsTiled(freqs, widths) ==
    LET n == Len(freqs) \div Len(widths)
    IN [i \in 1..(Len(widths) * n) |-> widths[((i - 1) % Len(widths)) + 1]]

\* widths.repeat(len(freqs)/len(widths))
BroadcastWidths(freqs, widths) ==
    LET n == Len(freqs) \div Len(widths)
    IN [i \in 1..(Len(widths) * n) |-> widths[((i - 1) \div n) + 1]]

\* the raise of lines 90-94: the message divides len(widths) by
\* len(freqs)/len(widths), with widths already replaced by its repetition
WidthsError(freqs, widths) ==
    IF Len(widths) = 0 THEN Raise("ZeroDivisionError")
    ELSE IF Len(freqs) \div Len(widths) = 0 THEN Raise("ZeroDivisionError")
    ELSE Raise("Configuration")

\* the index of the largest st = widths/(2*pi*freqs)
ArgMaxSt(freqs, widths) ==
    CHOOSE i \in 1..Len(freqs) :
        \A j \in 1..Len(freqs) : widths[i] * freqs[j] >= widths[j] * freqs[i]

morlet_multi(freqs, widths0, samplerate, window, complete) ==
    LET widths  == BroadcastWidths(freqs, widths0)
        m       == ArgMaxSt(freqs, widths)
        samples == CeilSamples(widths[m], freqs[m], samplerate, window)
    IN IF Len(widths) # Len(freqs) THEN WidthsError(freqs, widths)
       ELSE [kind |-> "bank", shape |-> <<Len(freqs), samples>>,
             rows |-> [i \in 1..Len(freqs) |->
                          Wavelet(samples, widths[i], freqs[i], samplerate, complete)]]

\* the positions (1-based, ascending) of a boolean sequence that hold b
RECURSIVE Where(_, _)
Where(mask, b) ==
    IF mask = <<>> THEN <<>>
    ELSE LET rest == Where(SubSeq(mask, 1, Len(mask) - 1), b)
         IN IF mask[Len(mask)] = b THEN Append(rest, Len(mask)) ELSE rest

FftMaskAtLeast(samples, fft_thresh) ==
    [i \in 1..Len(samples) |-> samples[i] >= fft_thresh]

\* fft_ind = samples > fft_thresh
FftMask(samples, fft_thresh) ==
    [i \in 1..Len(samples) |-> samples[i] > fft_thresh]

morlet_multi2(freqs, widths0, samplerate, fft_thresh, window, complete) ==
    LET widths  == BroadcastWidths(freqs, widths0)
        samples == [i \in 1..Len(freqs) |->
                       CeilSamples(widths[i], freqs[i], samplerate, window)]
        fft_ind == FftMask(samples, fft_thresh)
        fi      == Where(fft_ind, TRUE)
        ri      == Where(fft_ind, FALSE)
        fft_samples == IMax(LAMBDA k : samples[fi[k]], 1, Len(fi))
        fft_wavelets ==
            IF fi # <<>>
            THEN [kind |-> "bank", shape |-> <<Len(fi), fft_samples>>,
                  rows |-> [k \in 1..Len(fi) |->
                               Wavelet(fft_samples, widths[fi[k]], freqs[fi[k]],
                                       samplerate, complete)]]
            ELSE [kind |-> "bank", shape |-> <<1, 0>>, rows |-> <<>>]
        reg_norm_wavelets ==
            [k \in 1..Len(ri) |->
                Wavelet(samples[ri[k]], widths[ri[k]], freqs[ri[k]],
                        samplerate, complete)]
    IN IF Len(widths) # Len(freqs) THEN WidthsError(freqs, widths)
       ELSE [kind |-> "split", fft_wavelets |-> fft_wavelets,
             reg_wavelets |-> reg_norm_wavelets, fft_ind |-> fft_ind]

----------------------------------------------------------------------------
(* Coefficients, power and phase. *)

\* A coefficient is the complex number c/sqrt(e2): c is the convolution of
\* the signal with the samples of a wavelet before normalisation and e2 the
\* energy**2 of that wavelet (convolution is linear in the wavelet).
Coef(c, e2) == [c |-> c, e2 |-> e2]

\* N.abs(wavCoef), represented by its square, a rational
AbsCoef(x) == Ratio(Abs2(x.c) * x.e2[2], x.e2[1])

\* N.power(N.abs(wavCoef), 2)
PowerOf(x) == AbsCoef(x)

One == <<1, 1>>

ZeroMaskNone(norm_factor) == FALSE

\* ind = norm_factor == 0
ZeroMask(norm_factor) == norm_factor[1] = 0

\* a complex number of modulus 0 or 1, or nan: its direction in lowest terms
NaN == [nan |-> TRUE, dir |-> <<0, 0>>]

Dir(c) ==
    LET g == GCD(Abs(c[1]), Abs(c[2]))
    IN IF g = 0 THEN [nan |-> FALSE, dir |-> <<0, 0>>]
       ELSE [nan |-> FALSE, dir |-> <<c[1] \div g, c[2] \div g>>]

\* wavCoef/norm_factor for norm_factor either N.abs(wavCoef) or 1 where
\* that is 0; a division 0/0 gives nan
Normalize(x, norm_factor) == IF norm_factor[1] = 0 THEN NaN ELSE Dir(x.c)

\* N.angle(z): the angle of 0 is 0, the angle of a positive real
Angle(z) ==
    IF z.nan THEN NaN
    ELSE IF z.dir = <<0, 0>> THEN [nan |-> FALSE, dir |-> <<1, 0>>]
    ELSE z

PhaseZero == [nan |-> FALSE, dir |-> <<1, 0>>]

\* lines 409-415 (and 527-533) on one entry
PhaseOf(x) ==
    LET norm_factor0 == AbsCoef(x)
        ind          == ZeroMask(norm_factor0)
        norm_factor  == IF ind THEN One ELSE norm_factor0
        divided      == Normalize(x, norm_factor)
        zeroed       == IF ind THEN Dir(CZero) ELSE divided
    IN Angle(zeroed)

MapArray(F(_), a) ==
    Array("real", a.shape, [n \in 1..Len(a.data) |-> F(a.data[n])])

KnownReturns == {"both", "power", "phase"}

\* lines 400-417: power and phase of the 2-D coefficient matrix, before
\* they are reshaped
Extract2D(coef, to_return) ==
    [power |-> IF to_return \in {"power", "both"}
               THEN MapArray(PowerOf, coef) ELSE None,
     phase |-> IF to_return \in {"phase", "both"}
               THEN MapArray(PhaseOf, coef) ELSE None]

\* newshape: list(origshape) with len(freqs) inserted at freq_axis
newshape(origshape, freq_axis, nfreqs) ==
    SubSeq(origshape, 1, freq_axis) \o <<nfreqs>>
        \o SubSeq(origshape, freq_axis + 1, Len(origshape))

\* lines 393-424: the returned value
Returned(coef, to_return, time_axis, freq_axis, origshape, nfreqs) ==
    LET e  == Extract2D(coef, to_return)
        ns == newshape(origshape, freq_axis, nfreqs)
    IN [kind  |-> "result",
        power |-> IF e.power.kind = "None" THEN None
                  ELSE reshapeFrom2D(e.power, time_axis, ns),
        phase |-> IF e.phase.kind = "None" THEN None
                  ELSE reshapeFrom2D(e.phase, time_axis, ns)]

----------------------------------------------------------------------------
(* phase_pow_multi, phase_pow_multi2 *)

\* the plain complex array of the samples of a bank
BankArray(bank) ==
    Array("complex", bank.shape,
          [n \in 1..(bank.shape[1] * bank.shape[2]) |->
              bank.rows[((n - 1) \div bank.shape[2]) + 1].vals[((n - 1) % bank.shape[2]) + 1]])

\* fconv_multi(wavelets, eegdat, mode='same') for the normalised rows of a
\* bank: row b*num2+s carries the energy**2 of bank row b
BankConvolve(bank, sig) ==
    LET raw == fconv_multi(BankArray(bank), sig, "same")
    IN Array("complex", raw.shape,
             [n \in 1..Len(raw.data) |->
                 Coef(raw.data[n],
                      bank.rows[((n - 1) \div (raw.shape[2] * sig.shape[1])) + 1].energy2)])

\* seq[k] of Python: k may count from the end
PyValid(seq, k) == k >= -Len(seq) /\ k < Len(seq)

PyAt(seq, k) == seq[NormAxis(k, Len(seq)) + 1]

InsufficientOrEqual(bank, dat, time_axis) ==
    bank.kind = "bank" /\ bank.shape[2] >= PyAt(dat.shape, time_axis)

\* lines 379 and 476-478: more wavelet samples than data samples
Insufficient(bank, dat, time_axis) ==
    IF bank.kind = "bank" THEN bank.shape[2] > PyAt(dat.shape, time_axis)
    ELSE \/ bank.fft_wavelets.shape[2] > PyAt(dat.shape, time_axis)
         \/ /\ Len(bank.reg_wavelets) > 0
            /\ IMax(LAMBDA i : bank.reg_wavelets[i].samples, 1, Len(bank.reg_wavelets))
                   > PyAt(dat.shape, time_axis)

\* N.convolve(a, v, 'same') of numpy: the max(M, N) samples of the linear
\* convolution that start floor((min(M, N) - 1)/2) samples in
np_convolve_same(a, v) ==
    LET full == [n \in 1..(Len(a) + Len(v) - 1) |->
                    CSum(LAMBDA k : IF n - k + 1 >= 1 /\ n - k + 1 <= Len(v)
                                    THEN CMul(a[k], v[n - k + 1]) ELSE CZero,
                         1, Len(a))]
        start == (Min2(Len(a), Len(v)) - 1) \div 2
    IN SubSeq(full, start + 1, start + Max2(Len(a), Len(v)))

\* dat[ev]: the ev-th item (0-based) of an iteration over the first axis
Item(dat, ev) ==
    LET sub == Tail(dat.shape)
    IN Array(dat.dtype, sub, SubSeq(dat.data, ev * Prod(sub) + 1, (ev + 1) * Prod(sub)))

\* N.repeat(mask, n)
RepeatMask(mask, n) == [r \in 1..(Len(mask) * n) |-> mask[((r - 1) \div n) + 1]]

\* a[mask] = b for a boolean mask over the rows of a and a 2-D b: b is
\* broadcast to the selected rows
MaskAssignOk(a, mask, b) ==
    LET nsel == Len(Where(mask, TRUE))
    IN /\ b.shape[1] \in {1, nsel}
       /\ b.shape[2] \in {1, a.shape[2]}

MaskAssign(a, mask, b) ==
    LET sel == Where(mask, TRUE)
        pos(r) == Len(Where(SubSeq(mask, 1, r), TRUE))
        bval(k, j) == b.data[(IF b.shape[1] = 1 THEN 0 ELSE k - 1) * b.shape[2]
                             + (IF b.shape[2] = 1 THEN 1 ELSE j)]
    IN Array(a.dtype, a.shape,
             [n \in 1..Len(a.data) |->
                 LET r == ((n - 1) \div a.shape[2]) + 1
                     j == ((n - 1) % a.shape[2]) + 1
                 IN IF mask[r] THEN bval(pos(r), j) ELSE a.data[n]])

\* N.empty(shape): the entries are whatever the memory holds
Empty(nrows, ncols, junk) ==
    Array("complex", <<nrows, ncols>>, [n \in 1..(nrows * ncols) |-> Coef(junk, One)])

\* lines 500-508: the loop of direct convolutions.  Iteration i convolves
\* wavelet i div D0 with item i mod D0 of dat and stores it in row i.
DirectLoop(reg_wavelets, dat, nrows, ncols, junk) ==
    LET D0     == dat.shape[1]
        total  == Len(reg_wavelets) * D0
        wav(i) == reg_wavelets[(i \div D0) + 1]
        item(i) == Item(dat, i % D0)
        conv(i) == np_convolve_same(wav(i).vals,
                                    IF item(i).shape = <<>> THEN <<item(i).data[1]>>
                                    ELSE item(i).data)
        tooDeep(i) == Len(item(i).shape) >= 2
        noRow(i)   == i >= nrows
        noFit(i)   == Len(conv(i)) \notin {1, ncols}
        bad(i)     == tooDeep(i) \/ noRow(i) \/ noFit(i)
        first      == CHOOSE i \in 0..(total - 1) :
                          bad(i) /\ \A k \in 0..(i - 1) : ~bad(k)
    IN IF \E i \in 0..(total - 1) : bad(i)
       THEN IF tooDeep(first) THEN Raise("ValueError")
            ELSE IF noRow(first) THEN Raise("IndexError")
            ELSE Raise("ValueError")
       ELSE [kind |-> "array", dtype |-> "complex", shape |-> <<nrows, ncols>>,
             data |-> [n \in 1..(nrows * ncols) |->
                         LET i == (n - 1) \div ncols
                             j == ((n - 1) % ncols) + 1
                         IN IF i < total
                            THEN Coef(conv(i)[IF Len(conv(i)) = 1 THEN 1 ELSE j],
                                      wav(i).energy2)
                            ELSE Coef(junk, One)]]

\* lines 489-509 of phase_pow_multi2: the coefficient matrix
SplitConvolve(bank, sig, dat, time_axis, nfreqs, junk) ==
    LET shp     == sig.shape
        nper    == PyAt(shp, time_axis - 1)
        ncols   == PyAt(shp, time_axis)
        empty   == Empty(nper * nfreqs, ncols, junk)
        useFft  == bank.fft_wavelets.shape[2] > 0
        fconv_ind == RepeatMask(bank.fft_ind, nper)
        fftCoef == BankConvolve(bank.fft_wavelets, sig)
        afterFft == IF useFft THEN MaskAssign(empty, fconv_ind, fftCoef) ELSE empty
        nreg    == Len(Where(bank.fft_ind, FALSE))
        conv_ind == RepeatMask([i \in 1..Len(bank.fft_ind) |-> ~bank.fft_ind[i]], nper)
        reg_wavCoef == DirectLoop(bank.reg_wavelets, dat, nper * nreg, ncols, junk)
    IN IF ~PyValid(shp, time_axis - 1) \/ ~PyValid(shp, time_axis)
       THEN Raise("IndexError")
       ELSE IF useFft /\ ~MaskAssignOk(empty, fconv_ind, fftCoef)
       THEN Raise("ValueError")
       ELSE IF IsRaise(reg_wavCoef) THEN reg_wavCoef
       ELSE MaskAssign(afterFft, conv_ind, reg_wavCoef)

----------------------------------------------------------------------------
(* Calls of fconv_multi on arbitrary small matrices. *)

RealUnit == <<1, 0>>

ComplexUnit == <<1, 1>>

ModeStrings == {"full", "same", "valid", "bogus"}

\* rows of length c: an impulse at each position, and a ramp
RowsOfLen(c, unit) ==
    { [j \in 1..c |-> IF j = p THEN unit ELSE CZero] : p \in 1..c }
        \cup { [j \in 1..c |-> CMul(<<j, 0>>, unit)] }

Matrices(dtype, unit) ==
    UNION { { FromRows(dtype, rows, c) : rows \in [1..r -> RowsOfLen(c, unit)] } :
            <<r, c>> \in (1..MaxRows) \X (1..MaxLen) }

InitConv ==
    /\ fn = "fconv_multi"
    /\ \E a \in Matrices("real", RealUnit) \cup Matrices("complex", ComplexUnit),
          b \in Matrices("real", RealUnit), m \in ModeStrings :
            args = [in1 |-> a, in2 |-> b, mode |-> m]
    /\ pc = "start"
    /\ wavelets = None
    /\ eegdat = None
    /\ wavCoef = None
    /\ result = None
    /\ err = "none"
    /\ begun = {}

CallFconv ==
    /\ fn = "fconv_multi"
    /\ pc = "start"
    /\ result' = fconv_multi(args.in1, args.in2, args.mode)
    /\ pc' = "return"
    /\ UNCHANGED <<fn, args, wavelets, eegdat, wavCoef, err, begun>>

NextConv == CallFconv

SpecConv == InitConv /\ [][NextConv]_vars

----------------------------------------------------------------------------
(* Properties of fconv_multi. *)

KnownModes == {"full", "same", "valid"}

\* the linear convolution of two sequences, from its definition
LinearConvolve(a, b) ==
    [n \in 1..(Len(a) + Len(b) - 1) |->
        CSum(LAMBDA k : IF n - k + 1 >= 1 /\ n - k + 1 <= Len(b)
                        THEN CMul(a[k], b[n - k + 1]) ELSE CZero, 1, Len(a))]

\* the window of the linear convolution that a mode keeps
ModeWindow(a, b, mode) ==
    LET full == LinearConvolve(a, b)
    IN IF mode = "full" THEN full
       ELSE IF mode = "same" THEN centered(<<full>>, Max2(Len(a), Len(b)))[1]
       ELSE centered(<<full>>, Abs(Len(a) - Len(b)) + 1)[1]

ConvReturned == fn = "fconv_multi" /\ pc = "return" /\ args.mode \in KnownModes

\* C2: fconv_multi returns num1*num2 rows, and row b*num2+s is the
\* convolution of bank row b with signal row s (bank outer, signal inner).
C2_BlockOrder ==
    ConvReturned =>
        LET num1 == args.in1.shape[1]
            num2 == args.in2.shape[1]
        IN /\ result.kind = "array"
           /\ result.shape[1] = num1 * num2
           /\ \A b \in 0..(num1 - 1), s \in 0..(num2 - 1) :
                  Row(result, b * num2 + s) =
                      ModeWindow(Row(args.in1, b), Row(args.in2, s), args.mode)

\* a call with two bank rows and two signal rows whose four products differ
C2_Witness ==
    /\ ConvReturned
    /\ args.in1.shape[1] = 2 /\ args.in2.shape[1] = 2
    /\ Cardinality({Row(result, r) : r \in 0..3}) = 4

\* C3: every output row has length s1+s2-1 in mode 'full', max(s1,s2) in
\* mode 'same' and |s1-s2|+1 in mode 'valid'.
C3_RowLength ==
    ConvReturned =>
        LET s1 == args.in1.shape[2]
            s2 == args.in2.shape[2]
            n  == IF args.mode = "full" THEN s1 + s2 - 1
                  ELSE IF args.mode = "same" THEN Max2(s1, s2)
                  ELSE Abs(s1 - s2) + 1
        IN /\ result.shape[2] = n
           /\ Len(result.data) = result.shape[1] * n

\* a 'same' call whose two row lengths differ
C3_Witness ==
    /\ ConvReturned /\ args.mode = "same"
    /\ args.in1.shape[2] = 2 /\ args.in2.shape[2] = 1
    /\ result.shape[2] = 2

PaddedSize == Pow2(nextPow2(actual_size(args.in1.shape[2], args.in2.shape[2])))

\* the rows of a 'same' call are what N.convolve(w, x, 'same') gives
SameAsDirect ==
    LET num2 == args.in2.shape[1]
    IN \A b \in 0..(args.in1.shape[1] - 1), s \in 0..(num2 - 1) :
           Row(result, b * num2 + s) =
               np_convolve_same(Row(args.in1, b), Row(args.in2, s))

\* C16: for wavelet rows no longer than the signal rows, the padded length
\* is a power of two that holds the whole linear convolution, and mode
\* 'same' returns for every pair of rows the window N.convolve(w, x, 'same')
\* returns.
C16_DirectEqualsFft ==
    (ConvReturned /\ args.mode = "same"
        /\ args.in1.shape[2] <= args.in2.shape[2]) =>
        /\ \E p \in 0..PaddedSize : PaddedSize = Pow2(p)
        /\ PaddedSize >= args.in1.shape[2] + args.in2.shape[2] - 1
        /\ result.shape[2] = args.in2.shape[2]
        /\ SameAsDirect

\* the two agree for wavelet rows of odd length, whose excess is even
C16_OddLength ==
    (args.in1.shape[2] % 2 = 1) => C16_DirectEqualsFft

\* C8: an unrecognized mode string never ends in a normal return.
C8_InvalidModeRaises ==
    (pc \in {"return", "raise"} /\ fn = "fconv_multi" /\ args.mode \notin KnownModes)
        => (pc = "raise" /\ err = "InvalidMode")

----------------------------------------------------------------------------
(* Calls of morlet_multi and morlet_multi2. *)

MaxFreqs == 4

MaxWidths == 3

FreqVals == {1, 2}

WidthVals == {1, 2}

SampleRates == {1, 2}

Thresholds == {0, 1, 2, 3}

SeqsUpTo(S, n) == UNION { [1..k -> S] : k \in 1..n }

InitMorlet ==
    /\ fn \in {"morlet_multi", "morlet_multi2"}
    /\ \E f \in SeqsUpTo(FreqVals, MaxFreqs), w \in SeqsUpTo(WidthVals, MaxWidths),
          sr \in SampleRates,
          th \in IF fn = "morlet_multi" THEN {0} ELSE Thresholds :
            args = [freqs |-> f, widths |-> w, samplerate |-> sr, fft_thresh |-> th]
    /\ pc = "start"
    /\ wavelets = None
    /\ eegdat = None
    /\ wavCoef = None
    /\ result = None
    /\ err = "none"
    /\ begun = {}

CallMorlet(out) ==
    /\ pc = "start"
    /\ IF IsRaise(out)
       THEN pc' = "raise" /\ err' = out.err /\ result' = None
       ELSE pc' = "return" /\ err' = err /\ result' = out
    /\ UNCHANGED <<fn, args, wavelets, eegdat, wavCoef, begun>>

CallMorletMulti ==
    /\ fn = "morlet_multi"
    /\ CallMorlet(morlet_multi(args.freqs, args.widths, args.samplerate,
                               sampling_window, TRUE))

CallMorletMulti2 ==
    /\ fn = "morlet_multi2"
    /\ CallMorlet(morlet_multi2(args.freqs, args.widths, args.samplerate,
                                args.fft_thresh, sampling_window, TRUE))

NextMorlet == CallMorletMulti \/ CallMorletMulti2

SpecMorlet == InitMorlet /\ [][NextMorlet]_vars

\* the wavelet built for the i-th frequency (1-based) of the caller's order
WaveletOf(bank, i) ==
    IF bank.kind = "bank" THEN bank.rows[i]
    ELSE IF bank.fft_ind[i]
         THEN bank.fft_wavelets.rows[Len(Where(SubSeq(bank.fft_ind, 1, i), TRUE))]
         ELSE bank.reg_wavelets[Len(Where(SubSeq(bank.fft_ind, 1, i), FALSE))]

MorletEnded == fn \in {"morlet_multi", "morlet_multi2"} /\ pc \in {"return", "raise"}

\* C4: when len(freqs) is a multiple k*len(widths), the call returns a bank
\* and wavelet i is built with width widths[i div k].
C4_WidthBlocks ==
    (MorletEnded /\ Len(args.freqs) % Len(args.widths) = 0) =>
        LET k == Len(args.freqs) \div Len(args.widths)
        IN /\ pc = "return"
           /\ \A i \in 0..(Len(args.freqs) - 1) :
                  WaveletOf(result, i + 1).w = args.widths[(i \div k) + 1]

\* four frequencies and two different widths, in both groups of a split bank
C4_Witness ==
    /\ MorletEnded /\ pc = "return" /\ fn = "morlet_multi2"
    /\ Len(args.freqs) = 4 /\ Len(args.widths) = 2
    /\ args.widths[1] # args.widths[2]
    /\ result.reg_wavelets # <<>> /\ result.fft_wavelets.rows # <<>>

\* every wavelet of a returned bank: the rows of the matrix, or the rows of
\* the FFT group and the entries of the direct group
AllWavelets(bank) ==
    IF bank.kind = "bank" THEN bank.rows
    ELSE bank.fft_wavelets.rows \o bank.reg_wavelets

\* sum(|values|**2)/samplerate of the returned values vals/energy, a rational
UnitEnergyOf(w, samplerate) ==
    Ratio(ISum(LAMBDA j : Abs2(w.vals[j]), 1, Len(w.vals)) * w.energy2[2],
          w.energy2[1] * samplerate)

\* C11: every wavelet returned by morlet_multi (each row) and by
\* morlet_multi2 (each FFT-group row and each direct-group entry) has
\* sum(|values|**2)/samplerate = 1.
C11_UnitEnergy ==
    (MorletEnded /\ pc = "return") =>
        \A k \in 1..Len(AllWavelets(result)) :
            LET w == AllWavelets(result)[k]
            IN /\ w.energy2[1] > 0
               /\ UnitEnergyOf(w, args.samplerate) = <<1, 1>>

\* a split bank at samplerate 2 with wavelets in both groups whose energies
\* before normalisation differ
C11_Witness ==
    /\ MorletEnded /\ pc = "return" /\ fn = "morlet_multi2"
    /\ args.samplerate = 2
    /\ result.fft_wavelets.rows # <<>> /\ result.reg_wavelets # <<>>
    /\ result.fft_wavelets.rows[1].energy2 # result.reg_wavelets[1].energy2
    /\ \A k \in 1..Len(AllWavelets(result)) :
           UnitEnergyOf(AllWavelets(result)[k], 2) = <<1, 1>>

\* the arguments of a returned call of morlet_multi2, read per frequency i
\* (1-based): its width by the broadcast rule and its own sample count
SplitReturned == fn = "morlet_multi2" /\ pc = "return"

WidthFor(i) ==
    args.widths[((i - 1) \div (Len(args.freqs) \div Len(args.widths))) + 1]

CountFor(i) ==
    CeilSamples(WidthFor(i), args.freqs[i], args.samplerate, sampling_window)

Above == { i \in 1..Len(args.freqs) : CountFor(i) > args.fft_thresh }

\* the mask is true exactly above the threshold; the FFT rows are the
\* wavelets above it, in the caller's order, at the largest of their
\* counts; the direct entries are the others, each at its own count
SplitGroups ==
    LET shared == IMax(LAMBDA i : IF i \in Above THEN CountFor(i) ELSE 0,
                       1, Len(args.freqs))
    IN /\ Len(result.fft_ind) = Len(args.freqs)
       /\ \A i \in 1..Len(args.freqs) :
              LET k == Cardinality({ j \in 1..i : j \in Above })
              IN /\ result.fft_ind[i] <=> (CountFor(i) > args.fft_thresh)
                 /\ i \in Above =>
                        /\ k <= Len(result.fft_wavelets.rows)
                        /\ result.fft_wavelets.rows[k] =
                               Wavelet(shared, WidthFor(i), args.freqs[i],
                                       args.samplerate, TRUE)
                        /\ Len(result.fft_wavelets.rows[k].vals) = shared
                 /\ i \notin Above =>
                        /\ i - k <= Len(result.reg_wavelets)
                        /\ result.reg_wavelets[i - k] =
                               Wavelet(CountFor(i), WidthFor(i), args.freqs[i],
                                       args.samplerate, TRUE)
                        /\ Len(result.reg_wavelets[i - k].vals) = CountFor(i)
       /\ Above # {} => result.fft_wavelets.shape[2] = shared

\* C15 as stated: the mask is true exactly above the threshold, the groups
\* hold the wavelets as said, and the number of rows of the FFT group plus
\* the number of direct entries is len(freqs).
C15_RowsPartition ==
    SplitReturned =>
        /\ SplitGroups
        /\ result.fft_wavelets.shape[1] + Len(result.reg_wavelets) = Len(args.freqs)

\* C15: the mask is true exactly above the threshold and the groups hold
\* the wavelets as said; the rows of the FFT group and the direct entries
\* add up to len(freqs) when some entry of the mask is true, and when none
\* is, the FFT group is the array of shape (1, 0), which holds no wavelet,
\* and the direct group has len(freqs) entries.
C15_MaskPartition ==
    SplitReturned =>
        /\ SplitGroups
        /\ IF Above # {}
           THEN /\ result.fft_wavelets.shape[1] = Cardinality(Above)
                /\ result.fft_wavelets.shape[1] + Len(result.reg_wavelets)
                       = Len(args.freqs)
           ELSE /\ result.fft_wavelets.shape = <<1, 0>>
                /\ result.fft_wavelets.rows = <<>>
                /\ Len(result.reg_wavelets) = Len(args.freqs)

\* a split where a count equal to the threshold went to the direct group
\* and a larger count to the FFT group
C15_Witness ==
    /\ SplitReturned
    /\ \E i, j \in 1..Len(args.freqs) :
           /\ CountFor(i) = args.fft_thresh /\ ~result.fft_ind[i]
           /\ CountFor(j) > args.fft_thresh /\ result.fft_ind[j]
           /\ i < j

\* a split with no count above the threshold
C15_AllDirect ==
    /\ SplitReturned /\ Above = {}
    /\ result.fft_wavelets.shape = <<1, 0>>
    /\ Len(result.reg_wavelets) = Len(args.freqs)

\* C5: when len(freqs) is not a multiple of len(widths), the call fails with
\* the ConfigurationError and with no other error.
C5_ConfigurationError ==
    (MorletEnded /\ Len(args.freqs) % Len(args.widths) # 0) =>
        (pc = "raise" /\ err = "Configuration")

----------------------------------------------------------------------------
(* Calls of phase_pow_multi and phase_pow_multi2. *)

MaxRank == 2

MaxPipeFreqs == 2

DimVals == {1, 2}

ReturnStrings == {"both", "power", "phase", "bogus"}

PipeThresholds == {0, 1, 2}

Junk == {<<0, 0>>, <<5, 5>>}

PipeWidths == {<<1>>, <<1, 1>>}

Shapes(rank) == [1..rank -> DimVals]

\* a real array of the given shape with all entries different
DatOf(shape) == Array("real", shape, [n \in 1..Prod(shape) |-> <<n, 0>>])

Init ==
    /\ fn \in {"phase_pow_multi", "phase_pow_multi2"}
    /\ \E f \in SeqsUpTo(FreqVals, MaxPipeFreqs), w \in PipeWidths,
          rank \in 1..MaxRank, tr \in ReturnStrings,
          th \in IF fn = "phase_pow_multi" THEN {0} ELSE PipeThresholds :
            \E sh \in Shapes(rank), ta \in (-rank)..(rank - 1), fa \in 0..rank :
                args = [freqs |-> f, widths |-> w, samplerate |-> 1,
                        dat |-> DatOf(sh), to_return |-> tr, time_axis |-> ta,
                        freq_axis |-> fa, fft_thresh |-> th]
    /\ pc = "start"
    /\ wavelets = None
    /\ eegdat = None
    /\ wavCoef = None
    /\ result = None
    /\ err = "none"
    /\ begun = {}

Fail(e) ==
    /\ pc' = "raise"
    /\ err' = e
    /\ UNCHANGED <<fn, args, wavelets, eegdat, wavCoef, result, begun>>

\* lines 370-373 and 467-470
CheckToReturn ==
    /\ pc = "start"
    /\ fn \in {"phase_pow_multi", "phase_pow_multi2"}
    /\ IF args.to_return \notin KnownReturns
       THEN Fail("InvalidMode")
       ELSE /\ pc' = "morlet"
            /\ UNCHANGED <<fn, args, wavelets, eegdat, wavCoef, result, err, begun>>

GenWavelets(out) ==
    /\ pc = "morlet"
    /\ IF IsRaise(out)
       THEN Fail(out.err)
       ELSE /\ wavelets' = out
            /\ begun' = begun \cup {"wavelets"}
            /\ pc' = "check_data"
            /\ UNCHANGED <<fn, args, eegdat, wavCoef, result, err>>

\* line 376
GenWaveletsMulti ==
    /\ fn = "phase_pow_multi"
    /\ GenWavelets(morlet_multi(args.freqs, args.widths, args.samplerate,
                                sampling_window, TRUE))

\* lines 473-474
GenWaveletsMulti2 ==
    /\ fn = "phase_pow_multi2"
    /\ GenWavelets(morlet_multi2(args.freqs, args.widths, args.samplerate,
                                 args.fft_thresh, sampling_window, TRUE))

CheckDataAfterFlatten ==
    /\ pc = "check_data"
    /\ eegdat' = reshapeTo2D(args.dat, args.time_axis)
    /\ begun' = begun \cup {"flatten"}
    /\ IF Insufficient(wavelets, args.dat, args.time_axis)
       THEN pc' = "raise" /\ err' = "InsufficientData"
       ELSE pc' = "convolve" /\ err' = err
    /\ UNCHANGED <<fn, args, wavelets, wavCoef, result>>

\* lines 379-384 and 476-483
CheckData ==
    /\ pc = "check_data"
    /\ IF Insufficient(wavelets, args.dat, args.time_axis)
       THEN Fail("InsufficientData")
       ELSE /\ pc' = "flatten"
            /\ UNCHANGED <<fn, args, wavelets, eegdat, wavCoef, result, err, begun>>

\* lines 387-388 and 486-487
Flatten ==
    /\ pc = "flatten"
    /\ eegdat' = reshapeTo2D(args.dat, args.time_axis)
    /\ begun' = begun \cup {"flatten"}
    /\ pc' = "convolve"
    /\ UNCHANGED <<fn, args, wavelets, wavCoef, result, err>>

\* line 391
ConvolveMulti ==
    /\ pc = "convolve"
    /\ fn = "phase_pow_multi"
    /\ wavCoef' = BankConvolve(wavelets, eegdat)
    /\ begun' = begun \cup {"convolve"}
    /\ pc' = "extract"
    /\ UNCHANGED <<fn, args, wavelets, eegdat, result, err>>

\* lines 489-509
ConvolveMulti2 ==
    /\ pc = "convolve"
    /\ fn = "phase_pow_multi2"
    /\ \E junk \in Junk :
          LET out == SplitConvolve(wavelets, eegdat, args.dat, args.time_axis,
                                   Len(args.freqs), junk)
          IN /\ begun' = begun \cup {"convolve"}
             /\ IF IsRaise(out)
                THEN /\ pc' = "raise"
                     /\ err' = out.err
                     /\ UNCHANGED wavCoef
                ELSE /\ pc' = "extract"
                     /\ wavCoef' = out
                     /\ UNCHANGED err
    /\ UNCHANGED <<fn, args, wavelets, eegdat, result>>

\* lines 393-424 and 511-542
ReturnResult ==
    /\ pc = "extract"
    /\ result' = Returned(wavCoef, args.to_return, args.time_axis, args.freq_axis,
                          args.dat.shape, Len(args.freqs))
    /\ pc' = "return"
    /\ UNCHANGED <<fn, args, wavelets, eegdat, wavCoef, err, begun>>

Next ==
    \/ CheckToReturn
    \/ GenWaveletsMulti
    \/ GenWaveletsMulti2
    \/ CheckData
    \/ Flatten
    \/ ConvolveMulti
    \/ ConvolveMulti2
    \/ ReturnResult

Spec == Init /\ [][Next]_vars

----------------------------------------------------------------------------
(* Properties of phase_pow_multi and phase_pow_multi2. *)

Pipeline == fn \in {"phase_pow_multi", "phase_pow_multi2"}

Ended == pc \in {"return", "raise"}

TimeLen == PyAt(args.dat.shape, args.time_axis)

\* an index of the output without its frequency entry: an index of dat
DropFreq(idx) ==
    SubSeq(idx, 1, args.freq_axis) \o SubSeq(idx, args.freq_axis + 2, Len(idx))

\* the 1-D signal along the time axis of dat that passes through index i
SignalThrough(i) ==
    LET ax == NormAxis(args.time_axis, Len(args.dat.shape)) + 1
    IN [t \in 1..args.dat.shape[ax] |-> At(args.dat, [i EXCEPT ![ax] = t - 1])]

\* the 'same'-mode coefficient of wavelet f with the signal through i, at
\* the time sample of i
CoefAt(bank, f, i) ==
    LET ax == NormAxis(args.time_axis, Len(args.dat.shape)) + 1
        w  == WaveletOf(bank, f + 1)
    IN Coef(ModeWindow(w.vals, SignalThrough(i), "same")[i[ax] + 1], w.energy2)

\* C1: phase_pow_multi returns arrays of the input shape with an axis of
\* size len(freqs) inserted at freq_axis, whose entry at frequency f and
\* input index i derives from the 'same'-mode coefficient of wavelet f with
\* the signal through i at the time sample of i.
C1_RestoredPlacement ==
    (fn = "phase_pow_multi" /\ pc = "return") =>
        LET ns == newshape(args.dat.shape, args.freq_axis, Len(args.freqs))
        IN /\ args.to_return \in {"power", "both"} => result.power.shape = ns
           /\ args.to_return \in {"phase", "both"} => result.phase.shape = ns
           /\ \A n \in 0..(Prod(ns) - 1) :
                 LET idx == Unravel(n, ns)
                     x   == CoefAt(wavelets, idx[args.freq_axis + 1], DropFreq(idx))
                 IN /\ args.to_return \in {"power", "both"}
                        => At(result.power, idx) = PowerOf(x)
                    /\ args.to_return \in {"phase", "both"}
                        => At(result.phase, idx) = PhaseOf(x)

\* the placement holds when time is the last axis, given from the end, and
\* the frequency axis comes first
C1_FreqFirstTimeLast ==
    (args.time_axis = -1 /\ args.freq_axis = 0) => C1_RestoredPlacement

\* C6: phase_pow_multi fails with the insufficient-data error exactly when
\* the bank has more samples than dat has along time_axis, and then nothing
\* was flattened or convolved and nothing is returned.
C6_InsufficientData ==
    (fn = "phase_pow_multi" /\ Ended) =>
        /\ wavelets.kind = "bank" =>
              ((pc = "raise" /\ err = "InsufficientData")
                  <=> wavelets.shape[2] > TimeLen)
        /\ err = "InsufficientData" =>
              /\ wavelets.kind = "bank" /\ pc = "raise"
              /\ begun \cap {"flatten", "convolve"} = {}
              /\ eegdat = None /\ wavCoef = None /\ result = None

\* the error for a time axis given from the end
C6_Witness ==
    /\ fn = "phase_pow_multi" /\ pc = "raise" /\ err = "InsufficientData"
    /\ args.time_axis < 0 /\ Len(args.dat.shape) = 2
    /\ wavelets.shape[2] = TimeLen + 1

\* a bank with exactly as many samples as dat is accepted
C6_EqualAccepted ==
    /\ fn = "phase_pow_multi" /\ pc = "return"
    /\ wavelets.shape[2] = TimeLen

InputErrors == {"InvalidMode", "Configuration", "ZeroDivisionError", "InsufficientData"}

\* C7 as stated: an error of the inputs is raised before any computation
\* step (wavelet generation, flattening, convolution) has begun.
C7_NothingBegun ==
    (Pipeline /\ pc = "raise" /\ err \in InputErrors) =>
        (begun = {} /\ result = None)

\* C7: an error of the inputs is raised before flattening and convolution
\* have begun and nothing is returned; the insufficient-data error is raised
\* after the wavelets were generated, the others before.
C7_FailBeforeFlatten ==
    (Pipeline /\ pc = "raise" /\ err \in InputErrors) =>
        /\ begun = (IF err = "InsufficientData" THEN {"wavelets"} ELSE {})
        /\ eegdat = None /\ wavCoef = None /\ result = None

\* an insufficient-data error of phase_pow_multi2, after its split bank
C7_Witness ==
    /\ fn = "phase_pow_multi2" /\ pc = "raise" /\ err = "InsufficientData"
    /\ begun = {"wavelets"} /\ wavelets.kind = "split"

\* what phase_pow_multi does with the arguments of the call
PhasePowMulti ==
    LET bank == morlet_multi(args.freqs, args.widths, args.samplerate,
                             sampling_window, TRUE)
    IN IF args.to_return \notin KnownReturns THEN Raise("InvalidMode")
       ELSE IF IsRaise(bank) THEN bank
       ELSE IF Insufficient(bank, args.dat, args.time_axis) THEN Raise("InsufficientData")
       ELSE Returned(BankConvolve(bank, reshapeTo2D(args.dat, args.time_axis)),
                     args.to_return, args.time_axis, args.freq_axis,
                     args.dat.shape, Len(args.freqs))

\* the stepwise model of phase_pow_multi agrees with the function
PhasePowMultiSteps ==
    (fn = "phase_pow_multi" /\ Ended) =>
        IF pc = "raise" THEN PhasePowMulti = Raise(err) ELSE PhasePowMulti = result

\* the sample counts of the wavelets of the call
SampleCounts ==
    { CeilSamples(w, args.freqs[i], args.samplerate, sampling_window) :
        i \in 1..Len(args.freqs), w \in {args.widths[k] : k \in 1..Len(args.widths)} }

SinglePath ==
    \/ \A n \in SampleCounts : args.fft_thresh < n
    \/ \A n \in SampleCounts : args.fft_thresh >= n

\* C10: when fft_thresh is below every sample count or at or above every
\* sample count, phase_pow_multi2 returns what phase_pow_multi returns for
\* the same arguments.
C10_SinglePathAgrees ==
    (fn = "phase_pow_multi2" /\ Ended /\ SinglePath /\ ~IsRaise(PhasePowMulti)) =>
        (pc = "return" /\ result = PhasePowMulti)

\* phase_pow_multi2 has filled its coefficient matrix
Scattered == fn = "phase_pow_multi2" /\ pc \in {"extract", "return"}

\* the number S of rows of the flattened signal batch
SignalRows == Prod(args.dat.shape) \div TimeLen

\* the coefficients of the f-th frequency (0-based, caller's order) with
\* row s of the flattened batch, from the convolution of the group of f
CoefRow(bank, f, s) ==
    LET w   == WaveletOf(bank, f + 1)
        sig == Row(eegdat, s)
        c   == IF bank.fft_ind[f + 1] THEN ModeWindow(w.vals, sig, "same")
               ELSE np_convolve_same(w.vals, sig)
    IN [t \in 1..Len(c) |-> Coef(c[t], w.energy2)]

\* C12: once phase_pow_multi2 has scattered both groups, the coefficient
\* matrix has exactly F*S rows and row f*S+s holds the coefficients of the
\* f-th frequency of the caller's order with signal row s, whichever group
\* f belongs to; no row keeps what the memory held before.
C12_ScatterRows ==
    Scattered =>
        LET F == Len(args.freqs)
            S == SignalRows
        IN /\ wavCoef.shape = <<F * S, TimeLen>>
           /\ \A f \in 0..(F - 1), s \in 0..(S - 1) :
                  Row(wavCoef, f * S + s) = CoefRow(wavelets, f, s)

\* the rows are placed as C12 says when dat has two axes and time is the
\* last of the two
C12_TimeLastOfTwo ==
    (Len(args.dat.shape) = 2 /\ args.time_axis \in {-1, 1}) =>
        /\ C12_ScatterRows
        /\ (fn = "phase_pow_multi2" /\ pc = "raise") => err \in InputErrors

\* a scatter of a mixed mask over two frequencies and two signal rows
C12_MixedScatter ==
    /\ Scattered /\ SignalRows = 2
    /\ wavelets.fft_ind = <<TRUE, FALSE>>
    /\ C12_ScatterRows

\* the loop of lines 504-508 pairs every direct wavelet once with every row
\* of the flattened batch: dat yields S items, item ev being row ev
DirectPairsRows ==
    /\ args.dat.shape[1] = SignalRows
    /\ \A ev \in 0..(SignalRows - 1) :
           /\ Item(args.dat, ev).shape = <<TimeLen>>
           /\ Item(args.dat, ev).data = Row(eegdat, ev)

\* C13: whenever phase_pow_multi returns for the arguments of a call of
\* phase_pow_multi2, that call returns too, its direct loop pairs every
\* direct wavelet once with every row of the flattened batch, its
\* coefficient matrix has shape (len(freqs)*S, T) and its result has the
\* shape of phase_pow_multi's.
C13_SameContract ==
    (fn = "phase_pow_multi2" /\ Ended /\ ~IsRaise(PhasePowMulti)) =>
        /\ pc = "return"
        /\ wavelets.reg_wavelets # <<>> => DirectPairsRows
        /\ wavCoef.shape = <<Len(args.freqs) * SignalRows, TimeLen>>
        /\ result.power.shape = PhasePowMulti.power.shape
        /\ result.phase.shape = PhasePowMulti.phase.shape

\* the contract is kept when dat has two axes and time is the last of them
C13_TimeLastOfTwo ==
    (Len(args.dat.shape) = 2 /\ args.time_axis \in {-1, 1}) => C13_SameContract

----------------------------------------------------------------------------
(* The extraction of lines 393-424 and 511-542 on arbitrary coefficients. *)

CoefVals == {<<0, 0>>, <<2, 0>>, <<-1, 1>>}

CoefMatrices(r, c) ==
    { Array("complex", <<r, c>>, d) :
        d \in [1..(r * c) -> {Coef(v, One) : v \in CoefVals}] }

InitExtract ==
    /\ fn \in {"phase_pow_multi", "phase_pow_multi2"}
    /\ \E r \in 1..MaxRows, c \in 1..MaxLen : wavCoef \in CoefMatrices(r, c)
    /\ \E tr \in KnownReturns :
          args = [freqs |-> <<1>>, widths |-> <<1>>, samplerate |-> 1,
                  dat |-> DatOf(wavCoef.shape), to_return |-> tr,
                  time_axis |-> -1, freq_axis |-> 0, fft_thresh |-> 0]
    /\ pc = "extract"
    /\ wavelets = None
    /\ eegdat = DatOf(wavCoef.shape)
    /\ result = None
    /\ err = "none"
    /\ begun = {"wavelets", "flatten", "convolve"}

NextExtract == ReturnResult

SpecExtract == InitExtract /\ [][NextExtract]_vars

\* C9: where the coefficient is 0 the phase is exactly 0 and the power is
\* exactly 0; elsewhere the phase is the angle of coefficient/|coefficient|
\* and the power its squared magnitude; the call returns, for every
\* to_return and in both functions.
C9_ZeroMagnitude ==
    (Pipeline /\ Ended) =>
        /\ pc = "return"
        /\ \A n \in 1..Len(wavCoef.data) :
              LET x == wavCoef.data[n]
              IN /\ args.to_return \in {"power", "both"} =>
                      result.power.data[n] =
                          (IF x.c = CZero THEN <<0, 1>>
                           ELSE Ratio(Abs2(x.c) * x.e2[2], x.e2[1]))
                 /\ args.to_return \in {"phase", "both"} =>
                      result.phase.data[n] =
                          (IF x.c = CZero THEN PhaseZero ELSE Dir(x.c))

\* a returned phase and power of a matrix with a zero and a non-zero entry
C9_Witness ==
    /\ fn = "phase_pow_multi2" /\ pc = "return" /\ args.to_return = "both"
    /\ \E n, m \in 1..Len(wavCoef.data) :
          /\ wavCoef.data[n].c = CZero /\ wavCoef.data[m].c # CZero
          /\ result.phase.data[n] = PhaseZero /\ result.power.data[n][1] = 0
          /\ result.phase.data[m] # PhaseZero

====
